---- MODULE Spec2Model ----
(***************************************************************************)
(* godevwatch: build orchestration and process supervision engine.         *)
(*   src/watcher.go        lines 1-358   FileWatcher (debouncer,           *)
(*                                       orchestrator, Stop)               *)
(*   src/build_tracker.go  lines 191-399 BuildTracker (the build ledger)   *)
(*   src/command.go                      Command (Run, Kill)               *)
(*   src/proxy.go          lines 388-468 ProcessManager (application)      *)
(***************************************************************************)
EXTENDS Integers, Sequences, FiniteSets, Bags, TLC

(***************************************************************************)
(* Bounds of the model.                                                    *)
(***************************************************************************)
\* seconds the clock advances in the main specification
MaxTime == 1
\* triggers the orchestrator may consume in the main specification
MaxBuilds == 2
\* filesystem events delivered in the main specification
MaxEvents == 1
\* filesystem events delivered in the debouncer specification
MaxDebounceEvents == 3
\* ledger calls issued, and seconds the clock advances, in the ledger
\* specification
MaxLedgerCalls == 4
MaxLedgerTime == 2
\* configured rules in the rule-selection specification
MaxRules == 2
\* Kill calls on the one command of the kill specification
MaxKills == 2
\* lines the command of the stream specification writes
MaxLines == 2
\* filesystem events delivered to the watcher that is never stopped
MaxRunEvents == 2

(***************************************************************************)
(* Program constants.                                                      *)
(***************************************************************************)
\* os.Getpid() of the supervisor, and the pid of an earlier supervisor run
\* whose status files are still in the status directory
OwnPid == 7
OtherPid == 5
\* cap(fw.buildTrigger)
TriggerCap == 1

BuildStatusBuilding == "building"
BuildStatusFailed == "failed"
BuildStatusAborted == "aborted"
Statuses == {BuildStatusBuilding, BuildStatusFailed, BuildStatusAborted}

VARIABLES
  now,            \* time.Now().Unix()
  ledger,         \* status files in bt.statusDir: <<timestamp, pid, status>>
  currentBuildId, \* content of the file current-build-id (<<>> = no file)
  lop,            \* ledger specification: the BuildTracker call in progress
  ldone,          \* ledger specification: the last completed call
  lcalls,         \* ledger specification: calls still to be issued
  buildTrigger,   \* fw.buildTrigger: the buffered channel, a sequence
  changedFiles,   \* processFileEvents: paths collected since the last snapshot
  timerArmed,     \* processFileEvents: armed debounce timers that have not fired
  cbFired,        \* timer callbacks started that have not taken their snapshot
  cbFiles,        \* timer callbacks holding a snapshot, before triggerBuild
  debAlive,       \* the processFileEvents goroutine has not returned
  evBudget,       \* filesystem events still to be delivered
  started,        \* Start has dispatched the startup trigger
  stopChan,       \* "open" or "closed"
  pc,             \* position of the orchestrator goroutine and of Stop
  cf,             \* executeBuild: the consumed changedFiles argument
  buildID,        \* executeBuild: the BuildID of the run
  rulesToRun,     \* executeBuild: rules still to run, the first is the current
  buildCmd,       \* executeBuild: the Command of the current rule (0 = none)
  builds,         \* triggers consumed so far
  currentBuild,   \* fw.currentBuild (0 = nil)
  fwmu,           \* holder of fw.mu ("" = unlocked)
  pmCur,          \* pm.currentCmd (0 = nil)
  pmmu,           \* holder of pm.mu ("" = unlocked)
  procs,          \* every Command created: [kind, st]
  lastDisp,       \* history: the argument of the latest triggerBuild call
  nDisp,          \* history: triggerBuild calls made by timer callbacks
  seenPaths,      \* history: relevant paths delivered to the debouncer
  nWindows,       \* history: debounce windows opened (timer armed from idle)
  hist,           \* history: latest outcome of the build of each timestamp
  sel,            \* rule-selection specification: one determineRulesToRun call
  kc,             \* kill specification: one Command, its process group, Kill
  so,             \* stream specification: one Command and its two pipes
  configRules     \* fw.config.BuildRules

ledgerAux == <<lop, ldone, lcalls>>
debVars == <<changedFiles, timerArmed, cbFired, cbFiles, debAlive, evBudget,
             seenPaths, nWindows, nDisp>>
orchVars == <<cf, buildID, rulesToRun, buildCmd, builds>>
histVars == <<hist>>
harnessVars == <<sel, kc, so, configRules>>
nonLedgerVars == <<buildTrigger, debVars, started, stopChan, pc, orchVars,
                   currentBuild, fwmu, pmCur, pmmu, procs, lastDisp, histVars,
                   harnessVars>>
vars == <<now, ledger, currentBuildId, lop, ldone, lcalls, buildTrigger,
          changedFiles, timerArmed, cbFired, cbFiles, debAlive, evBudget,
          started, stopChan, pc, cf, buildID, rulesToRun, buildCmd, builds,
          currentBuild, fwmu, pmCur, pmmu, procs, lastDisp, seenPaths,
          nWindows, nDisp, hist, sel, kc, so, configRules>>

(***************************************************************************)
(* Build ledger (BuildTracker).  A status file "{ts}-{pid}-{status}" is    *)
(* the tuple <<ts, pid, status>>; a BuildID "{ts}-{pid}" is <<ts, pid>>.   *)
(***************************************************************************)

\* fmt.Sprintf("%s-%s", buildID, status)
StatusFile(id, status) == <<id[1], id[2], status>>

\* mutant of GlobBuild: the glob finds nothing
GlobBuild_None(dir, id) == {}

\* filepath.Glob(buildID + "-*"): the status files of one BuildID
GlobBuild(dir, id) ==
  {f \in dir : f[1] = id[1] /\ f[2] = id[2]}

\* strings.Split(buildID, "-")[0] parsed as an integer
extractTimestamp(id) == id[1]

\* mutant of CleanupMatches: timestamp < currentTimestamp
CleanupMatches_Strict(dir, currentId) ==
  {f \in dir : /\ f[3] \in {BuildStatusFailed, BuildStatusAborted}
               /\ f[1] < currentId[1]}

\* the files CleanupOldFailed removes
CleanupMatches(dir, currentId) ==
  {f \in dir : /\ f[3] \in {BuildStatusFailed, BuildStatusAborted}
               /\ extractTimestamp(<<f[1], f[2]>>)
                    <= extractTimestamp(currentId)}

\* mutant of SetStatus: the old status files are kept
SetStatus_NoReplace(dir, id, status) == dir \cup {<<id[1], id[2], status>>}

SetStatus(dir, id, status) ==
  (dir \ GlobBuild(dir, id)) \cup {StatusFile(id, status)}

\* mutant of ClearBuild: nothing is removed
ClearBuild_Noop(dir, id) == dir

ClearBuild(dir, id) == dir \ GlobBuild(dir, id)

CleanupOldFailed(dir, currentId) ==
  dir \ CleanupMatches(dir, currentId)

\* GetBuilds: one Build per status file (current-build-id does not parse)
GetBuilds(dir) ==
  {[ID |-> <<f[1], f[2]>>, Status |-> f[3], Timestamp |-> f[1]] : f \in dir}

\* time passes
Tick(bound) ==
  /\ now < bound
  /\ now' = now + 1

(***************************************************************************)
(* Configuration (Config.BuildRules, Config.RunCmd).  A path is known by   *)
(* its base name; a watch pattern "*.ext" is known by its extension.       *)
(***************************************************************************)
BuildRules ==
  << [Name |-> "gen",     Watch |-> {"tpl"}],
     [Name |-> "compile", Watch |-> {"go"}] >>

\* the extension of each path the filesystem can report
Ext == [p \in {"a.tpl", "b.go", "c.go", "d.md"} |->
          CASE p = "a.tpl" -> "tpl"
            [] p = "b.go"  -> "go"
            [] p = "c.go"  -> "go"
            [] OTHER       -> "md"]

Paths == DOMAIN Ext
\* the paths delivered in the main specification
MainPaths == {"a.tpl", "b.go", "d.md"}

\* filepath.Match(pattern, filepath.Base(path)) for a pattern "*.ext"
matchesPattern(path, pattern) == Ext[path] = pattern

\* mutant of shouldWatch: only the first rule is consulted
shouldWatch_FirstRule(path) ==
  \E i \in DOMAIN configRules :
    /\ i = 1
    /\ \E pattern \in configRules[i].Watch : matchesPattern(path, pattern)

\* shouldWatch: some watch pattern of some configured rule matches the path
shouldWatch(path) ==
  \E i \in DOMAIN configRules :
    \E pattern \in configRules[i].Watch : matchesPattern(path, pattern)

\* the configurations of the main specification: the two rules above, or
\* no build rule at all
Configs == {BuildRules, <<>>}

\* a value sent on fw.buildTrigger: a []string, nil or not; the code only
\* ranges over the slice and takes its length, so it is kept as a set
Trigger(isNil, files) == [isNil |-> isNil, files |-> files]
NilTrigger == Trigger(TRUE, {})

\* the indexes of a rule list, in declared order
RuleIndexes(rules) == [i \in DOMAIN rules |-> i]

\* ruleMatches[i]: some changed file matches some watch pattern of rule i
RuleMatches(rules, i, files) ==
  \E file \in files :
    \E pattern \in rules[i].Watch : matchesPattern(file, pattern)

\* mutant of determineRulesToRun: without the len(changedFiles) == 0 case
determineRulesToRun_NoInitial(rules, files) ==
  SelectSeq(RuleIndexes(rules), LAMBDA i : RuleMatches(rules, i, files))

\* determineRulesToRun: the indexes of the rules to run, in declared order
determineRulesToRun(rules, files) ==
  IF Cardinality(files) = 0
  THEN RuleIndexes(rules)
  ELSE SelectSeq(RuleIndexes(rules), LAMBDA i : RuleMatches(rules, i, files))

\* mutant of triggerBuild: the send always succeeds
triggerBuild_Unbounded(ch, changed) == Append(ch, changed)

\* triggerBuild: the non-blocking send, select { case ch <- v: default: }
triggerBuild(ch, changed) ==
  IF Len(ch) < TriggerCap THEN Append(ch, changed) ELSE ch

(***************************************************************************)
(* Commands (Command.Run, Command.Kill).  st is the state of the leader:   *)
(*   "new"      NewCommand done, c.cmd.Process not yet set                 *)
(*   "running"  started by Run                                             *)
(*   "termed"   running, SIGTERM delivered to the process group            *)
(*   "ok"       exited with status zero and reaped                         *)
(*   "fail"     exited non-zero or by a signal, and reaped                 *)
(* sig records that Kill has sent the process group a signal, for as long  *)
(* as the program holds the Command.                                       *)
(***************************************************************************)
NewCommand(kind) == [kind |-> kind, st |-> "new", sig |-> FALSE]

Alive(c) == procs[c].st \in {"running", "termed"}
Exited(c) == procs[c].st \in {"ok", "fail"}

\* Kill returns at once when c.cmd.Process is nil (line 79) and when Getpgid
\* fails because the process is reaped (lines 86-95); otherwise it signals
\* the group and waits
KillBlocks(st) == st \in {"running", "termed"}

\* syscall.Kill(-pgid, SIGTERM)
KillSignal(ps, c) ==
  IF ps[c].st = "running"
  THEN [ps EXCEPT ![c].st = "termed", ![c].sig = TRUE]
  ELSE ps

\* the program drops its last reference to Command c: what is left of it
\* is the state of its process
Discard(ps, c) == IF c # 0 THEN [ps EXCEPT ![c].sig = FALSE] ELSE ps

\* mutant of WaitDone: Run returns without waiting for the exit
WaitDone_NoWait(st) == TRUE

\* c.cmd.Wait() has returned
WaitDone(st) == st \in {"ok", "fail"}

AliveOf(kind) == {c \in DOMAIN procs : procs[c].kind = kind /\ Alive(c)}

(***************************************************************************)
(* Initial state: NewFileWatcher and NewProcessManager have returned,      *)
(* Start has launched processBuildTriggers and processFileEvents.          *)
(***************************************************************************)
NoCall == [op |-> "none", id |-> <<>>, status |-> "", glob |-> {},
           matches |-> {}]

\* the kill specification is not running: a Command as NewCommand returns
\* it, with no process and no Kill call
NoProcess == [run |-> "new", leader |-> "none", leaderMode |-> "short",
              hasChild |-> FALSE, child |-> "none", childMode |-> "short",
              termSent |-> FALSE, killSent |-> FALSE, kpc |-> "idle",
              err |-> "nil", calls |-> 0,
              pre |-> [leader |-> "none", child |-> "none",
                       termSent |-> FALSE, killSent |-> FALSE]]

\* the streams of a Command: stdout and stderr
Streams == {"stdout", "stderr"}

\* the stream specification is not running
NoStream == [st |-> "new", waited |-> FALSE, left |-> 0,
             hasSink |-> [s \in Streams |-> FALSE],
             written |-> [s \in Streams |-> <<>>],
             pipe |-> [s \in Streams |-> <<>>],
             buf |-> [s \in Streams |-> <<>>],
             cur |-> [s \in Streams |-> 0],
             sink |-> [s \in Streams |-> <<>>],
             reader |-> [s \in Streams |-> "none"]]

\* the rule-selection specification is not running
NoSelection == [rules |-> <<>>, changed |-> NilTrigger, called |-> FALSE,
                out |-> <<>>, filtered |-> FALSE, relevant |-> {}]

Constructed ==
  /\ now = 0
  /\ currentBuildId = <<>>
  /\ lop = NoCall
  /\ ldone = NoCall
  /\ buildTrigger = <<>>
  /\ changedFiles = {}
  /\ timerArmed = 0
  /\ cbFired = 0
  /\ cbFiles = EmptyBag
  /\ debAlive = TRUE
  /\ started = FALSE
  /\ stopChan = "open"
  /\ pc = [orch |-> "idle", stop |-> "none"]
  /\ cf = NilTrigger
  /\ buildID = <<>>
  /\ rulesToRun = <<>>
  /\ buildCmd = 0
  /\ builds = 0
  /\ currentBuild = 0
  /\ fwmu = ""
  /\ pmCur = 0
  /\ pmmu = ""
  /\ procs = <<>>
  /\ lastDisp = <<>>
  /\ seenPaths = {}
  /\ nWindows = 0
  /\ nDisp = 0
  /\ hist = [t \in 0..MaxTime |-> "none"]

Init ==
  /\ Constructed
  /\ ledger = {}
  /\ evBudget = MaxEvents
  /\ lcalls = 0
  /\ sel = NoSelection
  /\ kc = NoProcess
  /\ so = NoStream
  /\ configRules \in Configs

MTick ==
  /\ Tick(MaxTime)
  /\ UNCHANGED <<ledger, currentBuildId, ledgerAux, harnessVars, buildTrigger, debVars,
                 started, stopChan, pc, orchVars, currentBuild, fwmu, pmCur,
                 pmmu, procs, lastDisp, histVars>>

(***************************************************************************)
(* Start: the startup trigger (watcher.go line 62).                        *)
(***************************************************************************)
StartTrigger ==
  /\ ~started
  /\ started' = TRUE
  /\ buildTrigger' = triggerBuild(buildTrigger, NilTrigger)
  /\ lastDisp' = <<NilTrigger>>
  /\ UNCHANGED <<now, ledger, currentBuildId, ledgerAux, harnessVars, debVars, stopChan,
                 pc, orchVars, currentBuild, fwmu, pmCur, pmmu, procs,
                 histVars>>

(***************************************************************************)
(* processFileEvents: the debouncer and its timer callbacks.               *)
(***************************************************************************)
\* mutant of StopTimer: the previous timer is not stopped
StopTimer_Noop(armed) == armed

\* debounceTimer.Stop(): the armed timers left to fire afterwards
StopTimer(armed) == 0

\* case event := <-fw.watcher.Events
FileEventStep(path) ==
  /\ debAlive
  /\ evBudget > 0
  /\ evBudget' = evBudget - 1
  /\ IF shouldWatch(path)
     THEN /\ changedFiles' = changedFiles \cup {path}
          /\ timerArmed' = StopTimer(timerArmed) + 1
     ELSE UNCHANGED <<changedFiles, timerArmed>>
  /\ UNCHANGED <<now, ledger, currentBuildId, ledgerAux, harnessVars, buildTrigger,
                 cbFired, cbFiles, debAlive, nDisp, started, stopChan, pc,
                 orchVars, currentBuild, fwmu, pmCur, pmmu, procs, lastDisp,
                 histVars>>

FileEvent(path) ==
  /\ FileEventStep(path)
  /\ UNCHANGED <<seenPaths, nWindows>>

\* the debounce delay elapses: the runtime starts the AfterFunc callback
TimerFire ==
  /\ timerArmed > 0
  /\ timerArmed' = timerArmed - 1
  /\ cbFired' = cbFired + 1
  /\ UNCHANGED <<now, ledger, currentBuildId, ledgerAux, harnessVars, buildTrigger,
                 changedFiles, cbFiles, debAlive, evBudget, nDisp, seenPaths,
                 nWindows, started, stopChan, pc, orchVars, currentBuild,
                 fwmu, pmCur, pmmu, procs, lastDisp, histVars>>

\* the callback's critical section: files := copy(changedFiles); clear
CallbackSnapshot ==
  /\ cbFired > 0
  /\ cbFired' = cbFired - 1
  /\ cbFiles' = cbFiles (+) SetToBag({changedFiles})
  /\ changedFiles' = {}
  /\ UNCHANGED <<now, ledger, currentBuildId, ledgerAux, harnessVars, buildTrigger,
                 timerArmed, debAlive, evBudget, nDisp, seenPaths, nWindows, started,
                 stopChan, pc, orchVars, currentBuild, fwmu, pmCur, pmmu,
                 procs, lastDisp, histVars>>

\* mutant of CallbackTriggerStep: the send waits for room in the channel
CallbackTriggerStep_Blocking(files) ==
  /\ Len(buildTrigger) < TriggerCap
  /\ BagIn(files, cbFiles)
  /\ cbFiles' = cbFiles (-) SetToBag({files})
  /\ buildTrigger' = triggerBuild(buildTrigger, Trigger(FALSE, files))
  /\ lastDisp' = <<Trigger(FALSE, files)>>
  /\ UNCHANGED <<now, ledger, currentBuildId, ledgerAux, harnessVars, changedFiles,
                 timerArmed, cbFired, debAlive, evBudget, seenPaths, nWindows,
                 started, stopChan, pc, orchVars, currentBuild, fwmu, pmCur,
                 pmmu, procs, histVars>>

\* the callback's fw.triggerBuild(files)
CallbackTriggerStep(files) ==
  /\ BagIn(files, cbFiles)
  /\ cbFiles' = cbFiles (-) SetToBag({files})
  /\ buildTrigger' = triggerBuild(buildTrigger, Trigger(FALSE, files))
  /\ lastDisp' = <<Trigger(FALSE, files)>>
  /\ UNCHANGED <<now, ledger, currentBuildId, ledgerAux, harnessVars, changedFiles,
                 timerArmed, cbFired, debAlive, evBudget, seenPaths, nWindows,
                 started, stopChan, pc, orchVars, currentBuild, fwmu, pmCur,
                 pmmu, procs, histVars>>

CallbackTrigger(files) ==
  /\ CallbackTriggerStep(files)
  /\ UNCHANGED nDisp

\* case <-fw.stopChan: return
DebouncerReturn ==
  /\ debAlive
  /\ stopChan = "closed"
  /\ debAlive' = FALSE
  /\ UNCHANGED <<now, ledger, currentBuildId, ledgerAux, harnessVars, buildTrigger,
                 changedFiles, timerArmed, cbFired, cbFiles, evBudget,
                 nDisp, seenPaths, nWindows, started, stopChan, pc, orchVars,
                 currentBuild, fwmu, pmCur, pmmu, procs, lastDisp, histVars>>

(***************************************************************************)
(* processBuildTriggers and executeBuild: the orchestrator goroutine.      *)
(***************************************************************************)
SetPc(task, label) == [pc EXCEPT ![task] = label]

\* mutant of AfterAbort: the application is never stopped first
AfterAbort_NeverStop(changed) == "newBuild"

\* executeBuild line 220: the application is stopped unless changedFiles is nil
AfterAbort(changed) == IF changed.isNil THEN "newBuild" ELSE "stopApp"

\* case changedFiles := <-fw.buildTrigger, with the abort of lines 192-205
ConsumeTrigger ==
  /\ pc.orch = "idle"
  /\ Len(buildTrigger) > 0
  /\ builds < MaxBuilds
  /\ fwmu = ""
  /\ buildTrigger' = Tail(buildTrigger)
  /\ cf' = Head(buildTrigger)
  /\ builds' = builds + 1
  /\ IF currentBuild # 0
     THEN /\ ledger' = IF currentBuildId # <<>>
                       THEN SetStatus(ledger, currentBuildId, BuildStatusAborted)
                       ELSE ledger
          /\ hist' = IF currentBuildId # <<>>
                     THEN [hist EXCEPT ![currentBuildId[1]] = "aborted"]
                     ELSE hist
          /\ procs' = KillSignal(procs, currentBuild)
          /\ IF KillBlocks(procs[currentBuild].st)
             THEN /\ fwmu' = "orch"
                  /\ pc' = SetPc("orch", "abortKill")
                  /\ UNCHANGED currentBuild
             ELSE /\ currentBuild' = 0
                  /\ pc' = SetPc("orch", AfterAbort(Head(buildTrigger)))
                  /\ UNCHANGED fwmu
     ELSE /\ pc' = SetPc("orch", AfterAbort(Head(buildTrigger)))
          /\ UNCHANGED <<ledger, hist, procs, fwmu, currentBuild>>
  /\ UNCHANGED <<now, currentBuildId, ledgerAux, harnessVars, debVars, started, stopChan,
                 buildID, rulesToRun, buildCmd, pmCur, pmmu, lastDisp>>

\* case <-fw.stopChan: return
OrchReturn ==
  /\ pc.orch = "idle"
  /\ stopChan = "closed"
  /\ pc' = SetPc("orch", "exited")
  /\ UNCHANGED <<now, ledger, currentBuildId, ledgerAux, harnessVars, buildTrigger,
                 debVars, started, stopChan, orchVars, currentBuild, fwmu,
                 pmCur, pmmu, procs, lastDisp, histVars>>

\* ProcessManager.StopCurrentProcess up to the blocking wait inside Kill
StopCurrentProcess ==
  /\ pc.orch = "stopApp"
  /\ pmmu = ""
  /\ IF pmCur # 0 /\ KillBlocks(procs[pmCur].st)
     THEN /\ procs' = KillSignal(procs, pmCur)
          /\ pmmu' = "orch"
          /\ pc' = SetPc("orch", "stopAppKill")
          /\ UNCHANGED pmCur
     ELSE /\ pmCur' = 0
          /\ procs' = Discard(procs, pmCur)
          /\ pc' = SetPc("orch", "newBuild")
          /\ UNCHANGED pmmu
  /\ UNCHANGED <<now, ledger, currentBuildId, ledgerAux, harnessVars, buildTrigger,
                 debVars, started, stopChan, orchVars, currentBuild, fwmu,
                 lastDisp, histVars>>

\* BuildTracker.NewBuild
NewBuild ==
  /\ pc.orch = "newBuild"
  /\ buildID' = <<now, OwnPid>>
  /\ currentBuildId' = <<now, OwnPid>>
  /\ hist' = [hist EXCEPT ![now] = "begun"]
  /\ pc' = SetPc("orch", "setBuilding")
  /\ UNCHANGED <<now, ledger, ledgerAux, harnessVars, buildTrigger, debVars, started,
                 stopChan, cf, rulesToRun, buildCmd, builds, currentBuild,
                 fwmu, pmCur, pmmu, procs, lastDisp>>

\* mutant of AfterLedgerError: the error is ignored and the run goes on
AfterLedgerError_GoOn == "select"

\* lines 229-231 and 237-239: log the error and return to the loop
AfterLedgerError == "idle"

\* NewBuild fails (MkdirAll or WriteFile): no BuildID is returned
NewBuildFails ==
  /\ pc.orch = "newBuild"
  /\ pc' = SetPc("orch", "ledgerErr")
  /\ UNCHANGED <<now, ledger, currentBuildId, ledgerAux, harnessVars,
                 buildTrigger, debVars, started, stopChan, orchVars,
                 currentBuild, fwmu, pmCur, pmmu, procs, lastDisp, histVars>>

\* SetStatus(buildID, Building) fails: before anything is removed, or at
\* os.Create after the old status files of the BuildID are removed
SetBuildingFails ==
  /\ pc.orch = "setBuilding"
  /\ ledger' \in {ledger, ClearBuild(ledger, buildID)}
  /\ pc' = SetPc("orch", "ledgerErr")
  /\ UNCHANGED <<now, currentBuildId, ledgerAux, harnessVars, buildTrigger,
                 debVars, started, stopChan, orchVars, currentBuild, fwmu,
                 pmCur, pmmu, procs, lastDisp, histVars>>

\* log.Printf(...); return
LedgerErrorReturn ==
  /\ pc.orch = "ledgerErr"
  /\ pc' = SetPc("orch", AfterLedgerError)
  /\ cf' = NilTrigger
  /\ UNCHANGED <<now, ledger, currentBuildId, ledgerAux, harnessVars,
                 buildTrigger, debVars, started, stopChan, buildID,
                 rulesToRun, buildCmd, builds, currentBuild, fwmu, pmCur,
                 pmmu, procs, lastDisp, histVars>>

\* fw.buildTracker.SetStatus(buildID, BuildStatusBuilding)
SetBuilding ==
  /\ pc.orch = "setBuilding"
  /\ ledger' = SetStatus(ledger, buildID, BuildStatusBuilding)
  /\ hist' = [hist EXCEPT ![buildID[1]] = "building"]
  /\ pc' = SetPc("orch", "select")
  /\ UNCHANGED <<now, currentBuildId, ledgerAux, harnessVars, buildTrigger, debVars,
                 started, stopChan, orchVars, currentBuild, fwmu, pmCur, pmmu,
                 procs, lastDisp>>

\* mutant of NoRuleApplies: the empty rule list is not noticed
NoRuleApplies_Never(rs) == FALSE

\* line 245: len(rulesToRun) == 0
NoRuleApplies(rs) == Len(rs) = 0

\* determineRulesToRun, and the no-op return of lines 245-249
SelectRules ==
  /\ pc.orch = "select"
  /\ rulesToRun' = determineRulesToRun(configRules, cf.files)
  /\ cf' = NilTrigger
  /\ IF NoRuleApplies(determineRulesToRun(configRules, cf.files))
     THEN /\ ledger' = ClearBuild(ledger, buildID)
          /\ hist' = [hist EXCEPT ![buildID[1]] = "noop"]
          /\ pc' = SetPc("orch", "idle")
     ELSE /\ pc' = SetPc("orch", "track")
          /\ UNCHANGED <<ledger, hist>>
  /\ UNCHANGED <<now, currentBuildId, ledgerAux, harnessVars, buildTrigger,
                 debVars, started, stopChan, buildID, buildCmd, builds,
                 currentBuild, fwmu, pmCur, pmmu, procs, lastDisp>>

\* buildCmd := NewCommand(rule.Command); fw.currentBuild = buildCmd, for the
\* first rule ("track") and for a rule after another one ("next")
TrackBuild ==
  /\ pc.orch \in {"track", "next"}
  /\ fwmu = ""
  /\ procs' = Append(procs, NewCommand("build"))
  /\ buildCmd' = Len(procs) + 1
  /\ currentBuild' = Len(procs) + 1
  /\ pc' = SetPc("orch", "run")
  /\ UNCHANGED <<now, ledger, currentBuildId, ledgerAux, harnessVars, buildTrigger,
                 debVars, started, stopChan, cf, buildID, rulesToRun, builds,
                 fwmu, pmCur, pmmu, lastDisp, histVars>>

\* buildCmd.Run() up to c.cmd.Start()
RunBuild ==
  /\ pc.orch = "run"
  /\ procs' = [procs EXCEPT ![buildCmd].st = "running"]
  /\ pc' = SetPc("orch", "wait")
  /\ UNCHANGED <<now, ledger, currentBuildId, ledgerAux, harnessVars, buildTrigger,
                 debVars, started, stopChan, orchVars, currentBuild, fwmu,
                 pmCur, pmmu, lastDisp, histVars>>

\* mutant of WaitBuild: executeBuild goes on while the command runs
WaitBuild_Early ==
  /\ pc.orch = "wait"
  /\ pc' = SetPc("orch", IF procs[buildCmd].st = "ok" THEN "clear"
                         ELSE "classify")
  /\ UNCHANGED <<now, ledger, currentBuildId, ledgerAux, harnessVars, buildTrigger,
                 debVars, started, stopChan, orchVars, currentBuild, fwmu,
                 pmCur, pmmu, procs, lastDisp, histVars>>

\* buildCmd.Run() returns: c.cmd.Wait() is over
WaitBuild ==
  /\ pc.orch = "wait"
  /\ WaitDone(procs[buildCmd].st)
  /\ pc' = SetPc("orch", IF procs[buildCmd].st = "ok" THEN "clear"
                         ELSE "classify")
  /\ UNCHANGED <<now, ledger, currentBuildId, ledgerAux, harnessVars, buildTrigger,
                 debVars, started, stopChan, orchVars, currentBuild, fwmu,
                 pmCur, pmmu, procs, lastDisp, histVars>>

\* mutant of ClassifyFailure: fw.currentBuild is left set on the return
ClassifyFailure_KeepRef ==
  /\ pc.orch = "classify"
  /\ fwmu = ""
  /\ LET status == IF currentBuild = 0 THEN BuildStatusAborted
                   ELSE BuildStatusFailed
     IN /\ ledger' = SetStatus(ledger, buildID, status)
        /\ hist' = [hist EXCEPT ![buildID[1]] = status]
  /\ buildCmd' = 0
  /\ procs' = Discard(procs, buildCmd)
  /\ rulesToRun' = <<>>
  /\ pc' = SetPc("orch", "idle")
  /\ UNCHANGED <<now, currentBuildId, ledgerAux, harnessVars, buildTrigger,
                 debVars, started, stopChan, cf, buildID, builds, fwmu, pmCur,
                 currentBuild, pmmu, lastDisp>>

\* lines 269-285: wasAborted, SetStatus, fw.currentBuild = nil, return
ClassifyFailure ==
  /\ pc.orch = "classify"
  /\ fwmu = ""
  /\ LET status == IF currentBuild = 0 THEN BuildStatusAborted
                   ELSE BuildStatusFailed
     IN /\ ledger' = SetStatus(ledger, buildID, status)
        /\ hist' = [hist EXCEPT ![buildID[1]] = status]
  /\ currentBuild' = 0
  /\ buildCmd' = 0
  /\ procs' = Discard(procs, buildCmd)
  /\ rulesToRun' = <<>>
  /\ pc' = SetPc("orch", "idle")
  /\ UNCHANGED <<now, currentBuildId, ledgerAux, harnessVars, buildTrigger,
                 debVars, started, stopChan, cf, buildID, builds, fwmu, pmCur,
                 pmmu, lastDisp>>

\* lines 288-291: fw.currentBuild = nil after a rule that exited zero
ClearCurrent ==
  /\ pc.orch = "clear"
  /\ fwmu = ""
  /\ currentBuild' = 0
  /\ buildCmd' = 0
  /\ procs' = Discard(procs, buildCmd)
  /\ rulesToRun' = Tail(rulesToRun)
  /\ pc' = SetPc("orch", IF Len(rulesToRun) = 1 THEN "success" ELSE "next")
  /\ UNCHANGED <<now, ledger, currentBuildId, ledgerAux, harnessVars,
                 buildTrigger, debVars, started, stopChan, cf, buildID, builds,
                 fwmu, pmCur, pmmu, lastDisp, histVars>>

\* lines 294-296: CleanupOldFailed(buildID); ClearBuild(buildID)
Succeed ==
  /\ pc.orch = "success"
  /\ ledger' = ClearBuild(CleanupOldFailed(ledger, buildID), buildID)
  /\ hist' = [t \in DOMAIN hist |->
                IF t = buildID[1] THEN "succeeded"
                ELSE IF hist[t] \in {"failed", "aborted"} /\ t <= buildID[1]
                     THEN "swept" ELSE hist[t]]
  /\ pc' = SetPc("orch", "runApp")
  /\ UNCHANGED <<now, currentBuildId, ledgerAux, harnessVars, buildTrigger, debVars,
                 started, stopChan, orchVars, currentBuild, fwmu, pmCur, pmmu,
                 procs, lastDisp>>

\* ProcessManager.RunProcess: pm.currentCmd = cmd; go cmd.Run()
RunProcess ==
  /\ pc.orch = "runApp"
  /\ pmmu = ""
  /\ procs' = Append(procs, NewCommand("app"))
  /\ pmCur' = Len(procs) + 1
  /\ pc' = SetPc("orch", "idle")
  /\ UNCHANGED <<now, ledger, currentBuildId, ledgerAux, harnessVars, buildTrigger,
                 debVars, started, stopChan, orchVars, currentBuild, fwmu,
                 pmmu, lastDisp, histVars>>

(***************************************************************************)
(* The supervised processes.                                               *)
(***************************************************************************)
\* the goroutine of RunProcess reaches c.cmd.Start()
AppStart(c) ==
  /\ pc.stop # "panic"
  /\ procs[c].kind = "app"
  /\ procs[c].st = "new"
  /\ procs' = [procs EXCEPT ![c].st = "running"]
  /\ UNCHANGED <<now, ledger, currentBuildId, ledgerAux, harnessVars, buildTrigger,
                 debVars, started, stopChan, pc, orchVars, currentBuild, fwmu,
                 pmCur, pmmu, lastDisp, histVars>>

\* the exit statuses Run can report; the application's is only logged
Outcomes(kind) == IF kind = "build" THEN {"ok", "fail"} ELSE {"fail"}

\* the leader exits, on its own or on a delivered SIGTERM, and is reaped
ProcExit(c, outcome) ==
  /\ Alive(c)
  /\ outcome \in Outcomes(procs[c].kind)
  /\ procs' = [procs EXCEPT ![c].st = outcome]
  /\ UNCHANGED <<now, ledger, currentBuildId, ledgerAux, harnessVars, buildTrigger,
                 debVars, started, stopChan, pc, orchVars, currentBuild, fwmu,
                 pmCur, pmmu, lastDisp, histVars>>

(***************************************************************************)
(* Command.Kill once the signal is sent: the caller waits in one of the    *)
(* labels below, holding the lock it took.                                 *)
(***************************************************************************)
KillLabels == {"abortKill", "stopAppKill", "killBuild", "killApp"}

KillTarget(task) ==
  IF pc[task] \in {"abortKill", "killBuild"} THEN currentBuild ELSE pmCur

\* time.After(2 * time.Second) fires: SIGKILL to the group, Wait
KillEscalate(task) ==
  /\ pc[task] \in KillLabels
  /\ procs[KillTarget(task)].st = "termed"
  /\ procs' = [procs EXCEPT ![KillTarget(task)].st = "fail"]
  /\ UNCHANGED <<now, ledger, currentBuildId, ledgerAux, harnessVars, buildTrigger,
                 debVars, started, stopChan, pc, orchVars, currentBuild, fwmu,
                 pmCur, pmmu, lastDisp, histVars>>

\* mutant of KillReturn: the caller keeps the lock it took
KillReturn_KeepLock(task) ==
  /\ pc[task] \in KillLabels
  /\ WaitDone(procs[KillTarget(task)].st)
  /\ pc' = SetPc(task, CASE pc[task] = "abortKill" -> AfterAbort(cf)
                         [] pc[task] = "stopAppKill" -> "newBuild"
                         [] pc[task] = "killBuild" -> "pmStop"
                         [] OTHER -> "done")
  /\ currentBuild' = IF pc[task] \in {"abortKill", "killBuild"} THEN 0
                     ELSE currentBuild
  /\ fwmu' = fwmu
  /\ pmCur' = IF pc[task] = "stopAppKill" THEN 0 ELSE pmCur
  /\ procs' = IF pc[task] = "stopAppKill" THEN Discard(procs, pmCur)
              ELSE procs
  /\ pmmu' = pmmu
  /\ UNCHANGED <<now, ledger, currentBuildId, ledgerAux, harnessVars,
                 buildTrigger, debVars, started, stopChan, orchVars, lastDisp,
                 histVars>>

\* Kill returns to its caller, which finishes its critical section
KillReturn(task) ==
  /\ pc[task] \in KillLabels
  /\ WaitDone(procs[KillTarget(task)].st)
  /\ pc' = SetPc(task, CASE pc[task] = "abortKill" -> AfterAbort(cf)
                         [] pc[task] = "stopAppKill" -> "newBuild"
                         [] pc[task] = "killBuild" -> "pmStop"
                         [] OTHER -> "done")
  /\ currentBuild' = IF pc[task] \in {"abortKill", "killBuild"} THEN 0
                     ELSE currentBuild
  /\ fwmu' = IF pc[task] \in {"abortKill", "killBuild"} THEN "" ELSE fwmu
  /\ pmCur' = IF pc[task] = "stopAppKill" THEN 0 ELSE pmCur
  /\ procs' = IF pc[task] = "stopAppKill" THEN Discard(procs, pmCur)
              ELSE procs
  /\ pmmu' = IF pc[task] \in {"stopAppKill", "killApp"} THEN "" ELSE pmmu
  /\ UNCHANGED <<now, ledger, currentBuildId, ledgerAux, harnessVars,
                 buildTrigger, debVars, started, stopChan, orchVars, lastDisp,
                 histVars>>

(***************************************************************************)
(* FileWatcher.Stop, called by main after Start has returned.              *)
(***************************************************************************)
\* close(fw.stopChan)
StopCall ==
  /\ pc.stop = "none"
  /\ started
  /\ stopChan' = "closed"
  /\ pc' = SetPc("stop", "abortBuild")
  /\ UNCHANGED <<now, ledger, currentBuildId, ledgerAux, harnessVars, buildTrigger,
                 debVars, started, orchVars, currentBuild, fwmu, pmCur, pmmu,
                 procs, lastDisp, histVars>>

\* lines 347-352 up to the blocking wait inside Kill
StopAbortBuild ==
  /\ pc.stop = "abortBuild"
  /\ fwmu = ""
  /\ IF currentBuild # 0 /\ KillBlocks(procs[currentBuild].st)
     THEN /\ procs' = KillSignal(procs, currentBuild)
          /\ fwmu' = "stop"
          /\ pc' = SetPc("stop", "killBuild")
          /\ UNCHANGED currentBuild
     ELSE /\ currentBuild' = 0
          /\ pc' = SetPc("stop", "pmStop")
          /\ UNCHANGED <<procs, fwmu>>
  /\ UNCHANGED <<now, ledger, currentBuildId, ledgerAux, harnessVars, buildTrigger,
                 debVars, started, stopChan, orchVars, pmCur, pmmu, lastDisp,
                 histVars>>

\* ProcessManager.Stop up to the blocking wait inside Kill; then
\* fw.watcher.Close()
PmStop ==
  /\ pc.stop = "pmStop"
  /\ pmmu = ""
  /\ IF pmCur # 0 /\ KillBlocks(procs[pmCur].st)
     THEN /\ procs' = KillSignal(procs, pmCur)
          /\ pmmu' = "stop"
          /\ pc' = SetPc("stop", "killApp")
     ELSE /\ pc' = SetPc("stop", "done")
          /\ UNCHANGED <<procs, pmmu>>
  /\ UNCHANGED <<now, ledger, currentBuildId, ledgerAux, harnessVars, buildTrigger,
                 debVars, started, stopChan, orchVars, currentBuild, fwmu,
                 pmCur, lastDisp, histVars>>

\* a second call of Stop: close(fw.stopChan) on the closed channel panics and
\* the panic ends the program, its goroutines and its timers; the
\* supervised processes, in their own process groups, are left as they are
StopAgain ==
  /\ pc.stop = "done"
  /\ pc' = [orch |-> "exited", stop |-> "panic"]
  /\ debAlive' = FALSE
  /\ timerArmed' = 0
  /\ cbFired' = 0
  /\ cbFiles' = EmptyBag
  /\ UNCHANGED <<now, ledger, currentBuildId, ledgerAux, harnessVars,
                 buildTrigger, changedFiles, evBudget, seenPaths, nWindows,
                 nDisp, started, stopChan, orchVars, currentBuild, fwmu,
                 pmCur, pmmu, procs, lastDisp, histVars>>

Tasks == {"orch", "stop"}

Next ==
  \/ MTick
  \/ StartTrigger
  \/ \E path \in MainPaths : FileEvent(path)
  \/ TimerFire
  \/ CallbackSnapshot
  \/ \E files \in SUBSET MainPaths : CallbackTrigger(files)
  \/ DebouncerReturn
  \/ ConsumeTrigger
  \/ OrchReturn
  \/ StopCurrentProcess
  \/ NewBuild
  \/ SetBuilding
  \/ NewBuildFails
  \/ SetBuildingFails
  \/ LedgerErrorReturn
  \/ SelectRules
  \/ TrackBuild
  \/ RunBuild
  \/ WaitBuild
  \/ ClassifyFailure
  \/ ClearCurrent
  \/ Succeed
  \/ RunProcess
  \/ \E c \in DOMAIN procs : AppStart(c)
  \/ \E c \in DOMAIN procs, outcome \in {"ok", "fail"} : ProcExit(c, outcome)
  \/ \E task \in Tasks : KillEscalate(task)
  \/ \E task \in Tasks : KillReturn(task)
  \/ StopCall
  \/ StopAbortBuild
  \/ PmStop
  \/ StopAgain

Spec == Init /\ [][Next]_vars

(***************************************************************************)
(* Debouncer specification: processFileEvents and its timer callbacks on   *)
(* their own, with the history of windows and dispatches.                  *)
(***************************************************************************)
DebounceInit ==
  /\ Constructed
  /\ ledger = {}
  /\ evBudget = MaxDebounceEvents
  /\ lcalls = 0
  /\ sel = NoSelection
  /\ kc = NoProcess
  /\ so = NoStream
  /\ configRules = BuildRules

DFileEvent(path) ==
  /\ FileEventStep(path)
  /\ seenPaths' = IF shouldWatch(path) THEN seenPaths \cup {path}
                  ELSE seenPaths
  /\ nWindows' = IF shouldWatch(path) /\ timerArmed = 0 THEN nWindows + 1
                 ELSE nWindows

DCallbackTrigger(files) ==
  /\ CallbackTriggerStep(files)
  /\ nDisp' = nDisp + 1

DebounceNext ==
  \/ \E path \in Paths : DFileEvent(path)
  \/ TimerFire
  \/ CallbackSnapshot
  \/ \E files \in SUBSET Paths : DCallbackTrigger(files)

DebounceSpec == DebounceInit /\ [][DebounceNext]_vars

(***************************************************************************)
(* Ledger specification: any sequence of BuildTracker calls by the         *)
(* supervisor, each call observed at every file operation it makes.        *)
(***************************************************************************)
\* status directories an earlier run can have left behind
StaleDirs ==
  {{}, {<<0, OtherPid, BuildStatusFailed>>},
       {<<0, OtherPid, BuildStatusAborted>>, <<1, OtherPid, BuildStatusFailed>>}}

\* the BuildIDs NewBuild can have returned so far
BuildIDs == (0..now) \X {OwnPid}

LedgerInit ==
  /\ Constructed
  /\ ledger \in StaleDirs
  /\ evBudget = 0
  /\ lcalls = MaxLedgerCalls
  /\ sel = NoSelection
  /\ kc = NoProcess
  /\ so = NoStream
  /\ configRules = BuildRules

LTick == Tick(MaxLedgerTime) /\ UNCHANGED <<ledger, currentBuildId, ledgerAux, nonLedgerVars>>

LNewBuild ==
  /\ lop.op = "none"
  /\ lcalls > 0
  /\ currentBuildId' = <<now, OwnPid>>
  /\ ldone' = [NoCall EXCEPT !.op = "new", !.id = <<now, OwnPid>>]
  /\ lcalls' = lcalls - 1
  /\ UNCHANGED <<now, ledger, lop, nonLedgerVars>>

\* SetStatus up to filepath.Glob
LSetStatusCall(id, status) ==
  /\ lop.op = "none"
  /\ lcalls > 0
  /\ lop' = [op |-> "set", id |-> id, status |-> status,
             glob |-> GlobBuild(ledger, id),
             matches |-> GlobBuild(ledger, id)]
  /\ lcalls' = lcalls - 1
  /\ UNCHANGED <<now, ledger, currentBuildId, ldone, nonLedgerVars>>

\* ClearBuild up to filepath.Glob
LClearBuildCall(id) ==
  /\ lop.op = "none"
  /\ lcalls > 0
  /\ lop' = [op |-> "clear", id |-> id, status |-> "",
             glob |-> GlobBuild(ledger, id),
             matches |-> GlobBuild(ledger, id)]
  /\ lcalls' = lcalls - 1
  /\ UNCHANGED <<now, ledger, currentBuildId, ldone, nonLedgerVars>>

\* CleanupOldFailed up to os.ReadDir
LCleanupCall(id) ==
  /\ lop.op = "none"
  /\ lcalls > 0
  /\ lop' = [op |-> "cleanup", id |-> id, status |-> "",
             glob |-> CleanupMatches(ledger, id),
             matches |-> CleanupMatches(ledger, id)]
  /\ lcalls' = lcalls - 1
  /\ UNCHANGED <<now, ledger, currentBuildId, ldone, nonLedgerVars>>

\* os.Remove of one matched file
LRemove ==
  /\ lop.op # "none"
  /\ \E f \in lop.matches :
       /\ ledger' = ledger \ {f}
       /\ lop' = [lop EXCEPT !.matches = @ \ {f}]
  /\ UNCHANGED <<now, currentBuildId, ldone, lcalls, nonLedgerVars>>

\* os.Create of the new status file (SetStatus), and return
LReturn ==
  /\ lop.op # "none"
  /\ lop.matches = {}
  /\ ledger' = IF lop.op = "set"
               THEN ledger \cup {StatusFile(lop.id, lop.status)}
               ELSE ledger
  /\ ldone' = lop
  /\ lop' = NoCall
  /\ UNCHANGED <<now, currentBuildId, lcalls, nonLedgerVars>>

LedgerNext ==
  \/ LTick
  \/ LNewBuild
  \/ \E b \in BuildIDs, s \in Statuses : LSetStatusCall(b, s)
  \/ \E b \in BuildIDs : LClearBuildCall(b)
  \/ \E b \in BuildIDs : LCleanupCall(b)
  \/ LRemove
  \/ LReturn

LedgerSpec == LedgerInit /\ [][LedgerNext]_vars

(***************************************************************************)
(* Rule-selection specification: determineRulesToRun called once, on any   *)
(* configured rule list and any ChangeSet.                                 *)
(***************************************************************************)
\* the watch lists a rule can have
WatchLists == SUBSET {"tpl", "go"}

\* Config.BuildRules: every list of at most MaxRules rules
RuleLists ==
  UNION {[1..n -> [Name : {"rule"}, Watch : WatchLists]] : n \in 0..MaxRules}

\* the changedFiles arguments: nil, or a slice of paths
ChangeSets == {NilTrigger} \cup {Trigger(FALSE, files) : files \in SUBSET Paths}

SelectInit ==
  /\ Constructed
  /\ ledger = {}
  /\ evBudget = 0
  /\ lcalls = 0
  /\ configRules \in RuleLists
  /\ sel \in {[NoSelection EXCEPT !.rules = configRules,
                                  !.changed = changed] :
               changed \in ChangeSets}
  /\ kc = NoProcess
  /\ so = NoStream

\* rulesToRun := fw.determineRulesToRun(changedFiles)
SelectCall ==
  /\ ~sel.called
  /\ sel' = [sel EXCEPT !.called = TRUE,
                        !.out = determineRulesToRun(sel.rules, sel.changed.files)]
  /\ UNCHANGED <<now, ledger, currentBuildId, ledgerAux, buildTrigger,
                 debVars, started, stopChan, pc, orchVars, currentBuild, fwmu,
                 pmCur, pmmu, procs, lastDisp, histVars, kc,
                 so, configRules>>

\* processFileEvents: if !fw.shouldWatch(event.Name) { continue }, for each
\* path of the ChangeSet
SelectFilter ==
  /\ ~sel.filtered
  /\ sel' = [sel EXCEPT !.filtered = TRUE,
                        !.relevant = {path \in sel.changed.files :
                                        shouldWatch(path)}]
  /\ UNCHANGED <<now, ledger, currentBuildId, ledgerAux, buildTrigger,
                 debVars, started, stopChan, pc, orchVars, currentBuild, fwmu,
                 pmCur, pmmu, procs, lastDisp, histVars, kc,
                 so, configRules>>

SelectNext == SelectCall \/ SelectFilter

SelectSpec == SelectInit /\ [][SelectNext]_vars

(***************************************************************************)
(* Kill specification: one Command, the process group Run creates for it   *)
(* (the leader "sh -c" and one descendant), and Kill calls on the handle.  *)
(*   run     "new" until c.cmd.Start(), "started", "returned" after Wait   *)
(*   leader  "none", "running", "zombie" (exited, not reaped), "reaped"    *)
(*   child   "none", "alive", "dead"                                       *)
(*   mode    "short" exits on its own, "daemon" exits on SIGTERM only,     *)
(*           "stubborn" ignores SIGTERM and exits on SIGKILL only          *)
(*   kpc     the position of the Kill call                                 *)
(***************************************************************************)
Modes == {"short", "daemon", "stubborn"}

KillInit ==
  /\ Constructed
  /\ ledger = {}
  /\ evBudget = 0
  /\ lcalls = 0
  /\ sel = NoSelection
  /\ kc \in {[NoProcess EXCEPT !.leaderMode = lm, !.hasChild = hc,
                               !.childMode = cm] :
               lm \in Modes, hc \in BOOLEAN, cm \in Modes}
  /\ so = NoStream
  /\ configRules = BuildRules

\* every action of the kill specification leaves the rest alone
KFrame ==
  UNCHANGED <<now, ledger, currentBuildId, ledgerAux, buildTrigger, debVars,
              started, stopChan, pc, orchVars, currentBuild, fwmu, pmCur,
              pmmu, procs, lastDisp, histVars, sel, so, configRules>>

\* the process group has a member a signal can reach
GroupExists(k) == k.leader \in {"running", "zombie"} \/ k.child = "alive"

\* mutant of SignalGroupKill: the forceful signal is not sent
SignalGroupKill_Noop(k) == k

\* syscall.Kill(-pgid, syscall.SIGKILL)
SignalGroupKill(k) ==
  [k EXCEPT !.killSent = GroupExists(k),
            !.leader = IF @ = "running" THEN "zombie" ELSE @,
            !.child = IF @ = "alive" THEN "dead" ELSE @]

\* Run up to c.cmd.Start(): the leader runs in its own process group
KRun ==
  /\ kc.run = "new"
  /\ kc' = [kc EXCEPT !.run = "started", !.leader = "running",
                     !.child = IF kc.hasChild THEN "alive" ELSE "none"]
  /\ KFrame

\* a process exits on its own, or on the SIGTERM it was sent
ExitsNow(mode, termSent) ==
  mode = "short" \/ (mode = "daemon" /\ termSent)

KLeaderExit ==
  /\ kc.leader = "running"
  /\ ExitsNow(kc.leaderMode, kc.termSent)
  /\ kc' = [kc EXCEPT !.leader = "zombie"]
  /\ KFrame

KChildExit ==
  /\ kc.child = "alive"
  /\ ExitsNow(kc.childMode, kc.termSent)
  /\ kc' = [kc EXCEPT !.child = "dead"]
  /\ KFrame

\* c.cmd.Wait() reaps the exited leader; Run returns
KWait ==
  /\ kc.leader = "zombie"
  /\ kc' = [kc EXCEPT !.leader = "reaped", !.run = "returned"]
  /\ KFrame

\* Kill, lines 79-81: if c.cmd == nil || c.cmd.Process == nil return nil
KCall ==
  /\ kc.kpc = "idle"
  /\ kc.calls < MaxKills
  /\ kc' = [kc EXCEPT !.calls = @ + 1,
                     !.pre = [leader |-> kc.leader, child |-> kc.child,
                              termSent |-> kc.termSent,
                              killSent |-> kc.killSent],
                     !.err = "nil",
                     !.kpc = IF kc.run = "new" THEN "ret" ELSE "getpgid"]
  /\ KFrame

\* lines 86-95: Getpgid fails once the leader is reaped; the fallback
\* c.cmd.Process.Kill() then returns "os: process already finished"
KGetpgid ==
  /\ kc.kpc = "getpgid"
  /\ kc' = IF kc.leader = "reaped"
           THEN [kc EXCEPT !.kpc = "ret", !.err = "finished"]
           ELSE [kc EXCEPT !.kpc = "sigterm"]
  /\ KFrame

\* lines 98-103: syscall.Kill(-pgid, syscall.SIGTERM), ESRCH tolerated
KSigterm ==
  /\ kc.kpc = "sigterm"
  /\ kc' = [kc EXCEPT !.termSent = @ \/ GroupExists(kc), !.kpc = "wait"]
  /\ KFrame

\* lines 111-114: case <-done: the leader's Wait has returned
KDone ==
  /\ kc.kpc = "wait"
  /\ kc.leader = "reaped"
  /\ kc' = [kc EXCEPT !.kpc = "ret"]
  /\ KFrame

\* lines 115-117: case <-time.After(2 * time.Second): SIGKILL to the group
KTimeout ==
  /\ kc.kpc = "wait"
  /\ kc' = [SignalGroupKill(kc) EXCEPT !.kpc = "final"]
  /\ KFrame

\* lines 118-119: c.cmd.Wait(); return nil
KFinalWait ==
  /\ kc.kpc = "final"
  /\ kc.leader = "reaped"
  /\ kc' = [kc EXCEPT !.kpc = "ret"]
  /\ KFrame

\* the caller is back from Kill and may call it again
KReturn ==
  /\ kc.kpc = "ret"
  /\ kc' = [kc EXCEPT !.kpc = "idle"]
  /\ KFrame

KillNext ==
  \/ KRun
  \/ KLeaderExit
  \/ KChildExit
  \/ KWait
  \/ KCall
  \/ KGetpgid
  \/ KSigterm
  \/ KDone
  \/ KTimeout
  \/ KFinalWait
  \/ KReturn

KillSpec == KillInit /\ [][KillNext]_vars

\* the goroutines inside Kill and Run keep running, the 2 s timer fires,
\* and a process that exits on a signal does exit
KillFairness ==
  /\ WF_vars(KLeaderExit)
  /\ WF_vars(KWait)
  /\ WF_vars(KGetpgid)
  /\ WF_vars(KSigterm)
  /\ WF_vars(KDone)
  /\ WF_vars(KTimeout)
  /\ WF_vars(KFinalWait)

FairKillSpec == KillSpec /\ KillFairness

(***************************************************************************)
(* Properties.                                                             *)
(***************************************************************************)
BuildCmds == {c \in DOMAIN procs : procs[c].kind = "build"}
AppCmds == {c \in DOMAIN procs : procs[c].kind = "app"}

\* C1: whenever a trigger is pending while a build step's command runs and
\* has not been sent termination, the orchestrator is at its select, able
\* to react to the trigger without waiting for the command to exit
C1_AbortAndRestart ==
  \A c \in BuildCmds :
    (procs[c].st = "running" /\ Len(buildTrigger) > 0) => pc.orch = "idle"

\* C2: a pending trigger is always the most recently dispatched one
C2_NewestTriggerWins ==
  Len(buildTrigger) > 0 => buildTrigger[1] = lastDisp[1]

C4_OneApplicationAlive == Cardinality(AliveOf("app")) <= 1

\* C5: no application process is alive while a rule command of a build runs,
\* the application is started only by a build whose rules all succeeded, and
\* after a build that ended Failed or Aborted no application process is alive
C5_AppStoppedAroundBuild ==
  /\ AliveOf("build") # {} => AliveOf("app") = {}
  /\ pc.orch = "runApp" => hist[buildID[1]] = "succeeded"
  /\ (buildID # <<>> /\ hist[buildID[1]] \in {"failed", "aborted"})
       => AliveOf("app") = {}

Quiescent == timerArmed = 0 /\ cbFired = 0 /\ cbFiles = EmptyBag

\* C6: once the timer callbacks have run, every debounce window has
\* produced exactly one dispatched trigger, and the events of a single
\* window have produced one trigger whose ChangeSet is the set of their paths
C6_DebounceCoalescing ==
  /\ nDisp <= nWindows
  /\ Quiescent => nDisp = nWindows
  /\ (Quiescent /\ nWindows = 1) => lastDisp = <<Trigger(FALSE, seenPaths)>>

C6_Witness ==
  /\ Quiescent
  /\ nWindows = 1
  /\ nDisp = 1
  /\ seenPaths = {"a.tpl", "b.go", "c.go"}
  /\ buildTrigger = <<Trigger(FALSE, {"a.tpl", "b.go", "c.go"})>>

RecordsOf(ts, pid) == {f \in ledger : f[1] = ts /\ f[2] = pid}

\* C7: at every file operation of every SetStatus, ClearBuild and
\* CleanupOldFailed call the ledger holds at most one status file per
\* BuildID, and SetStatus creates the new file only when no file of the id
\* is left
C7_OneRecordPerBuild ==
  /\ \A f \in ledger : Cardinality(RecordsOf(f[1], f[2])) <= 1
  /\ (lop.op = "set" /\ lop.matches = {})
       => RecordsOf(lop.id[1], lop.id[2]) = {}

C7_Witness ==
  /\ lop.op = "none"
  /\ ldone.op = "set"
  /\ ldone.glob # {}
  /\ StatusFile(ldone.id, ldone.status) \notin ldone.glob
  /\ RecordsOf(ldone.id[1], ldone.id[2])
       = {StatusFile(ldone.id, ldone.status)}

StatusesOf(t) == {f[3] : f \in RecordsOf(t, OwnPid)}

C11_RuleSelection ==
  sel.called =>
    LET rules == sel.rules
        files == sel.changed.files
        out == sel.out
        matched == {i \in 1..Len(rules) :
                      \E f \in files, w \in rules[i].Watch :
                        matchesPattern(f, w)}
    IN IF files = {}
       THEN out = [i \in 1..Len(rules) |-> i]
       ELSE /\ \A k \in 1..(Len(out) - 1) : out[k] < out[k + 1]
            /\ {out[k] : k \in 1..Len(out)} = matched

\* two changed paths match the second of two rules and none matches the
\* first: the second rule is returned alone, once
C11_Witness ==
  /\ sel.called
  /\ Len(sel.rules) = 2
  /\ sel.changed.files = {"b.go", "c.go"}
  /\ sel.rules[1].Watch = {"tpl"}
  /\ sel.out = <<2>>

\* C12: a Kill call that finds a running leader which ignores SIGTERM
\* returns, and when it has returned SIGKILL was sent to the group and the
\* leader is exited and reaped
C12_KillEscalation ==
  /\ (kc.kpc = "getpgid" /\ kc.pre.leader = "running"
        /\ kc.leaderMode = "stubborn") ~> (kc.kpc = "ret")
  /\ []((kc.kpc = "ret" /\ kc.pre.leader = "running"
          /\ kc.leaderMode = "stubborn")
         => (kc.killSent /\ kc.leader = "reaped"))

\* Kill has returned from a call on a running leader that ignores SIGTERM
C12_Witness ==
  /\ kc.kpc = "ret"
  /\ kc.pre.leader = "running"
  /\ kc.leaderMode = "stubborn"
  /\ kc.termSent
  /\ kc.killSent

\* C13: when Kill returns from a call that found a live process in the
\* command's process group, no process of the group is alive
C13_WholeTreeTermination ==
  (kc.kpc = "ret" /\ (kc.pre.leader = "running" \/ kc.pre.child = "alive"))
    => (kc.leader # "running" /\ kc.child # "alive")

\* C14: a Kill call on a handle without a live process (never started, or
\* exited and reaped, by itself or by an earlier Kill) returns nil and
\* sends no signal
C14_KillIdempotent ==
  (kc.kpc = "ret" /\ kc.pre.leader \in {"none", "reaped"})
    => /\ kc.err = "nil"
       /\ kc.termSent = kc.pre.termSent
       /\ kc.killSent = kc.pre.killSent

\* C15: at the step in which FileWatcher.Stop returns, no build-step
\* process and no application process is alive
C15_Shutdown ==
  [][(pc.stop # "done" /\ pc'.stop = "done")
       => (AliveOf("build")' = {} /\ AliveOf("app")' = {})]_vars

\* C16: once Stop has completed, a further call of Stop completes as well
\* and leaves the stop channel and the watcher as the first call left them
C16_StopIdempotent ==
  [][pc.stop = "done" => (pc'.stop = "done" /\ stopChan' = stopChan)]_vars

\* C17: when executeBuild handles the non-zero exit of a rule's command that
\* was sent no signal, the build's record becomes Failed, no rule of the
\* build is left to run and the orchestrator is back at its select without
\* having started the application
C17_BuildStepFailure ==
  [][(pc.orch = "classify" /\ pc'.orch = "idle" /\ ~procs[buildCmd].sig)
       => /\ StatusFile(buildID, BuildStatusFailed) \in ledger'
          /\ rulesToRun' = <<>>
          /\ Len(procs') = Len(procs)]_vars

\* C18: when executeBuild handles the non-zero exit of a rule's command, the
\* record written is Aborted exactly if the command was sent a signal by
\* Kill, and Failed exactly if it was not
C18_AbortVersusFailure ==
  [][(pc.orch = "classify" /\ pc'.orch = "idle")
       => /\ (StatusFile(buildID, BuildStatusAborted) \in ledger')
               <=> procs[buildCmd].sig
          /\ (StatusFile(buildID, BuildStatusFailed) \in ledger')
               <=> ~procs[buildCmd].sig]_vars

\* C19: the first trigger the orchestrator consumes is the nil ChangeSet of
\* Start; its build does not stop the application first and selects every
\* configured rule in declared order
C19_StartupBuild ==
  [][/\ (builds = 0 /\ builds' = 1)
          => (cf' = NilTrigger /\ pc'.orch = "newBuild")
     /\ (builds = 1 /\ pc.orch = "select" /\ pc'.orch \in {"track", "idle"})
          => (rulesToRun' = RuleIndexes(configRules) /\ pc'.orch = "track")]_vars

\* C20: executeBuild reaches NewBuild from StopCurrentProcess when the
\* consumed ChangeSet is not nil and directly when it is nil, and only
\* Start sends a nil ChangeSet
C20_StopBeforeBuild ==
  [][/\ (pc.orch # "newBuild" /\ pc'.orch = "newBuild")
          => IF cf'.isNil
             THEN pc.orch = "idle"
             ELSE /\ pc.orch \in {"stopApp", "stopAppKill"}
                  /\ pmCur' = 0
                  /\ pmmu' = ""
     /\ (pc.orch = "newBuild" /\ pc'.orch = "setBuilding")
          => (buildID' = <<now, OwnPid>> /\ ledger' = ledger)
     /\ (Len(buildTrigger') > Len(buildTrigger) /\ started' = started)
          => ~buildTrigger'[Len(buildTrigger')].isNil]_vars

\* a change trigger is being built and StopCurrentProcess has dropped the
\* exited application of the startup build before NewBuild
C20_Witness ==
  /\ pc.orch = "newBuild"
  /\ ~cf.isNil
  /\ builds = 2
  /\ pmCur = 0
  /\ \E c \in AppCmds : procs[c].st = "fail"

\* C21: when StopCurrentProcess returns, every application command created
\* by an earlier RunProcess has exited: none is alive and none is still to
\* be started by its goroutine
C21_StopAndWait ==
  [][(pc.orch \in {"stopApp", "stopAppKill"} /\ pc'.orch = "newBuild")
       => \A c \in AppCmds : procs'[c].st \in {"ok", "fail"}]_vars

\* C22: at most one dispatched trigger is pending, waiting to be consumed
C22_OnePendingTrigger == Len(buildTrigger) <= 1

\* a trigger is pending and a later dispatch found the channel full and was
\* dropped
C22_Witness ==
  /\ Len(buildTrigger) = 1
  /\ lastDisp # <<>>
  /\ lastDisp[1] # buildTrigger[1]

\* C23: a Failed or Aborted record is neither removed nor replaced by a
\* record of another status, except by the step in which a build succeeds
C23_OneStatusTransition ==
  [][\A f \in ledger :
       f[3] \in {BuildStatusFailed, BuildStatusAborted}
         => (f \in ledger' \/ pc.orch = "success")]_vars

C25_NoLockAcrossKill ==
  \A task \in Tasks :
    pc[task] \in KillLabels => (fwmu # task /\ pmmu # task)

\* C26: when Stop has arrived and a multi-rule build is between two rule
\* runs, the build does not go on to create and run the next rule's command
C26_StopBetweenRules ==
  [][(pc.orch = "next" /\ stopChan = "closed")
       => (pc'.orch # "run" /\ Len(procs') = Len(procs))]_vars

C30_LedgerErrorEndsRun ==
  [][(pc.orch = "ledgerErr" /\ pc'.stop # "panic")
       => /\ pc'.orch \in {"ledgerErr", "idle"}
          /\ Len(procs') = Len(procs)
          /\ currentBuild' = 0
          /\ pmCur' = pmCur]_vars

\* a run has ended on a ledger error and the orchestrator has consumed the
\* next trigger
C30_Witness ==
  /\ builds = 2
  /\ pc.orch = "newBuild"
  /\ procs = <<>>
  /\ buildID = <<>>


(***************************************************************************)
(* The orchestrator under fair scheduling: the goroutine of                *)
(* processBuildTriggers takes its next step whenever it can, a started     *)
(* command exits, and a Kill called by Stop returns.  The clock only       *)
(* selects the BuildIDs, so these runs are explored within one second.     *)
(***************************************************************************)
\* one step of executeBuild, from the consumed trigger to its return
OrchStep ==
  \/ StopCurrentProcess
  \/ NewBuild
  \/ SetBuilding
  \/ NewBuildFails
  \/ SetBuildingFails
  \/ LedgerErrorReturn
  \/ SelectRules
  \/ TrackBuild
  \/ RunBuild
  \/ WaitBuild
  \/ ClassifyFailure
  \/ ClearCurrent
  \/ Succeed
  \/ RunProcess
  \/ KillReturn("orch")

\* a started command exits
CommandExits ==
  \E c \in DOMAIN procs, outcome \in {"ok", "fail"} : ProcExit(c, outcome)

FairNext ==
  \/ StartTrigger
  \/ \E path \in MainPaths : FileEvent(path)
  \/ TimerFire
  \/ CallbackSnapshot
  \/ \E files \in SUBSET MainPaths : CallbackTrigger(files)
  \/ DebouncerReturn
  \/ ConsumeTrigger
  \/ OrchReturn
  \/ OrchStep
  \/ \E c \in DOMAIN procs : AppStart(c)
  \/ CommandExits
  \/ \E task \in Tasks : KillEscalate(task)
  \/ KillReturn("stop")
  \/ StopCall
  \/ StopAbortBuild
  \/ PmStop
  \/ StopAgain

Fairness ==
  /\ WF_vars(OrchStep)
  /\ WF_vars(CommandExits)
  /\ WF_vars(KillReturn("stop"))

FairSpec == Init /\ [][FairNext]_vars /\ Fairness

\* the labels of executeBuild from which the run returns to the loop with
\* one of the four outcomes of the build slot
EndsWithOutcome ==
  \/ pc.orch = "select" /\ hist'[buildID[1]] = "noop"
  \/ /\ pc.orch = "classify"
     /\ hist'[buildID[1]] \in {BuildStatusFailed, BuildStatusAborted}
  \/ pc.orch = "runApp" /\ hist'[buildID[1]] = "succeeded"

StreamInit ==
  /\ Constructed
  /\ ledger = {}
  /\ evBudget = 0
  /\ lcalls = 0
  /\ sel = NoSelection
  /\ kc = NoProcess
  /\ so \in {[NoStream EXCEPT !.left = MaxLines, !.hasSink = hs] :
               hs \in [Streams -> BOOLEAN]}
  /\ configRules = BuildRules

\* every action of the stream specification leaves the rest alone
SFrame ==
  UNCHANGED <<now, ledger, currentBuildId, ledgerAux, buildTrigger, debVars,
              started, stopChan, pc, orchVars, currentBuild, fwmu, pmCur,
              pmmu, procs, lastDisp, histVars, sel, kc, configRules>>

\* the lines of seq up to the n-th
FirstLines(seq, n) == SubSeq(seq, 1, n)

\* c.cmd.Start(); go c.streamOutput(stdout, ...); go c.streamOutput(stderr, ...)
SStart ==
  /\ so.st = "new"
  /\ so' = [so EXCEPT !.st = "running",
                      !.reader = [s \in Streams |-> "entry"]]
  /\ SFrame

\* streamOutput: if callback == nil { return }; bufio.NewScanner(reader)
SEnter(s) ==
  /\ so.reader[s] = "entry"
  /\ so' = [so EXCEPT !.reader[s] = IF so.hasSink[s] THEN "scan" ELSE "done"]
  /\ SFrame

\* the process writes a line to one of its streams
SWrite(s) ==
  /\ so.st = "running"
  /\ so.left > 0
  /\ so' = [so EXCEPT !.left = @ - 1,
                      !.written[s] = Append(@, MaxLines - so.left + 1),
                      !.pipe[s] = Append(@, MaxLines - so.left + 1)]
  /\ SFrame

\* the process exits: the write ends of its pipes are closed
SExit ==
  /\ so.st = "running"
  /\ so' = [so EXCEPT !.st = "exited"]
  /\ SFrame

\* c.cmd.Wait() closes the read ends of StdoutPipe and StderrPipe once the
\* process has exited
WaitCloses == TRUE

\* return c.cmd.Wait()
SWait ==
  /\ so.st = "exited"
  /\ ~so.waited
  /\ so' = [so EXCEPT !.waited = WaitCloses]
  /\ SFrame

\* scanner.Scan(): the next buffered line; with none buffered a read of the
\* pipe, which fails on the closed read end, returns some of the lines in
\* the pipe, reports end of file after the exit, or blocks
SScan(s) ==
  /\ so.reader[s] = "scan"
  /\ IF so.buf[s] # <<>>
     THEN so' = [so EXCEPT !.cur[s] = Head(so.buf[s]),
                           !.buf[s] = Tail(@),
                           !.reader[s] = "deliver"]
     ELSE IF so.waited
     THEN so' = [so EXCEPT !.reader[s] = "done"]
     ELSE IF so.pipe[s] # <<>>
     THEN \E n \in 1..Len(so.pipe[s]) :
            so' = [so EXCEPT !.buf[s] = FirstLines(so.pipe[s], n),
                             !.pipe[s] = SubSeq(@, n + 1, Len(@))]
     ELSE /\ so.st = "exited"
          /\ so' = [so EXCEPT !.reader[s] = "done"]
  /\ SFrame

\* callback(scanner.Text())
SDeliver(s) ==
  /\ so.reader[s] = "deliver"
  /\ so' = [so EXCEPT !.sink[s] = Append(@, so.cur[s]),
                      !.cur[s] = 0,
                      !.reader[s] = "scan"]
  /\ SFrame

StreamNext ==
  \/ SStart
  \/ \E s \in Streams : SEnter(s)
  \/ \E s \in Streams : SWrite(s)
  \/ SExit
  \/ SWait
  \/ \E s \in Streams : SScan(s)
  \/ \E s \in Streams : SDeliver(s)

StreamSpec == StreamInit /\ [][StreamNext]_vars

\* C31: for each stream with a sink, the lines delivered are the lines
\* written, once each and in the order written, each delivered before the
\* next is taken from the stream, and none is missing when the reader has
\* finished
C31_OutputForwarding ==
  \A s \in Streams :
    so.hasSink[s] =>
      /\ Len(so.sink[s]) <= Len(so.written[s])
      /\ so.sink[s] = FirstLines(so.written[s], Len(so.sink[s]))
      /\ so.cur[s] # 0 => so.cur[s] = so.written[s][Len(so.sink[s]) + 1]
      /\ so.reader[s] = "done" => so.sink[s] = so.written[s]


(***************************************************************************)
(* The running watcher: Start has been called and Stop never is.  The      *)
(* debounce timer fires, its callback runs, the orchestrator takes its     *)
(* next step and consumes a pending trigger whenever it can, and every     *)
(* started command exits.  The clock only selects the BuildIDs, so these   *)
(* runs are explored within one second.                                    *)
(***************************************************************************)
\* the status directory Start finds: empty, or with the record of an earlier
\* supervisor that ended inside a build (os.Exit in the signal handler, or
\* the panic of a second Stop, before executeBuild wrote the outcome);
\* nothing removes it
StartDirs == {{}, {<<0, OtherPid, BuildStatusBuilding>>}}

RunInit ==
  /\ Constructed
  /\ ledger \in StartDirs
  /\ evBudget = MaxRunEvents
  /\ lcalls = 0
  /\ sel = NoSelection
  /\ kc = NoProcess
  /\ so = NoStream
  /\ configRules = BuildRules

\* the timer callback of processFileEvents, from the firing to triggerBuild
DebounceStep ==
  \/ TimerFire
  \/ CallbackSnapshot
  \/ \E files \in SUBSET MainPaths : CallbackTrigger(files)

RunNext ==
  \/ StartTrigger
  \/ \E path \in MainPaths : FileEvent(path)
  \/ DebounceStep
  \/ ConsumeTrigger
  \/ OrchStep
  \/ \E c \in DOMAIN procs : AppStart(c)
  \/ CommandExits
  \/ KillEscalate("orch")

RunFairness ==
  /\ WF_vars(StartTrigger)
  /\ WF_vars(DebounceStep)
  /\ WF_vars(ConsumeTrigger)
  /\ WF_vars(OrchStep)
  /\ WF_vars(CommandExits)

RunSpec == RunInit /\ [][RunNext]_vars /\ RunFairness

\* processBuildTriggers has just received a trigger that holds the path, or
\* the nil trigger of a run of every rule
Consumed(path) ==
  /\ pc.orch \in {"stopApp", "newBuild"}
  /\ cf.isNil \/ path \in cf.files

\* a trigger holding the path is still in the channel when the triggers
\* consumed have reached MaxBuilds
StillPending(path) ==
  /\ builds = MaxBuilds
  /\ \E i \in DOMAIN buildTrigger : path \in buildTrigger[i].files

\* C32: every file event that passes the relevance filter is followed by a
\* build whose ChangeSet holds the path or which runs every rule, when every
\* build command terminates and Stop is not called
C32_NoChangeLost ==
  \A path \in MainPaths :
    (path \in changedFiles) ~> (Consumed(path) \/ StillPending(path))


\* C33: no timer callback dispatches an empty ChangeSet, and the
\* len(changedFiles) == 0 case of determineRulesToRun is reached by the
\* startup trigger only
C33_NonEmptyDispatch ==
  /\ \A i \in DOMAIN lastDisp : lastDisp[i].isNil \/ lastDisp[i].files # {}
  /\ \A i \in DOMAIN buildTrigger :
       buildTrigger[i].isNil \/ buildTrigger[i].files # {}
  /\ pc.orch = "select" => (cf.isNil \/ cf.files # {})


\* C34: once Stop has returned no command is created and no process is
\* started: neither a rule's command, nor the application
C34_NothingStartsAfterStop ==
  [][(pc.stop = "done" /\ pc'.stop = "done")
       => /\ Len(procs') = Len(procs)
          /\ \A c \in DOMAIN procs :
               procs[c].st = "new" => procs'[c].st = "new"]_vars


\* the records of the ledger with status Building
BuildingRecords == {f \in ledger : f[3] = BuildStatusBuilding}

\* C35: in every reachable state at most one record of the ledger has
\* status Building, across all BuildIDs
C35_OneBuildingRecord == Cardinality(BuildingRecords) <= 1


\* C36: for every rule list and every path, shouldWatch accepts the path
\* exactly when determineRulesToRun on the ChangeSet of that path alone
\* returns a rule; and a non-empty ChangeSet of accepted paths never selects
\* no rule
C36_FilterAgreesWithSelection ==
  (sel.called /\ sel.filtered /\ ~sel.changed.isNil) =>
    /\ \A path \in Paths :
         sel.changed.files = {path}
           => (path \in sel.relevant <=> Len(sel.out) > 0)
    /\ (sel.changed.files # {} /\ sel.relevant = sel.changed.files)
         => Len(sel.out) > 0

\* the path matches the second of two rules only: it passes the filter and
\* the second rule is selected
C36_Witness ==
  /\ sel.called
  /\ sel.filtered
  /\ Len(sel.rules) = 2
  /\ sel.rules[1].Watch = {"tpl"}
  /\ sel.changed.files = {"b.go"}
  /\ sel.relevant = {"b.go"}
  /\ sel.out = <<2>>


(***************************************************************************)
(* The tasks that take fw.mu and pm.mu under fair scheduling: to the fair  *)
(* orchestrator is added that the Stop call takes its next step whenever   *)
(* it can.                                                                 *)
(***************************************************************************)
\* one step of FileWatcher.Stop after the close of stopChan
StopStep ==
  \/ StopAbortBuild
  \/ PmStop
  \/ KillReturn("stop")

LockFairness ==
  /\ Fairness
  /\ WF_vars(StopStep)

LockSpec == Init /\ [][FairNext]_vars /\ LockFairness

\* the lock the next step of the task has to take: fw.mu.Lock() or
\* pm.mu.Lock() is the next statement at these positions
NeedsLock(task) ==
  CASE task = "orch" /\ pc.orch \in {"track", "next", "classify", "clear"}
         -> "fw"
    [] task = "orch" /\ pc.orch \in {"stopApp", "runApp"} -> "pm"
    [] task = "stop" /\ pc.stop = "abortBuild" -> "fw"
    [] task = "stop" /\ pc.stop = "pmStop" -> "pm"
    [] OTHER -> "none"

\* the task is inside Lock(): another task holds the lock
Blocked(task) ==
  \/ NeedsLock(task) = "fw" /\ fwmu \notin {"", task}
  \/ NeedsLock(task) = "pm" /\ pmmu \notin {"", task}

\* C37: no task holds fw.mu and pm.mu at the same time, a held lock is
\* released (both locks are free again), and every task waiting for a lock
\* gets it and goes on, as long as the program runs and every kill-and-wait
\* completes
C37_DeadlockFreedom ==
  /\ [](\A task \in Tasks : ~(fwmu = task /\ pmmu = task))
  /\ (fwmu # "" \/ pmmu # "")
       ~> ((fwmu = "" /\ pmmu = "") \/ pc.stop = "panic")
  /\ \A task \in Tasks :
       Blocked(task) ~> (NeedsLock(task) = "none" \/ pc.stop = "panic")

\* Stop waits for pm.mu while the orchestrator holds it across the Kill of
\* StopCurrentProcess
C37_Witness ==
  /\ pc.stop = "pmStop"
  /\ pc.orch = "stopAppKill"
  /\ pmmu = "orch"
  /\ Blocked("stop")

====
